---- MODULE Spec2Model ----
(***************************************************************************)
(* A model of mm.c: a segregated-free-list, best-fit, immediate-coalescing *)
(* allocator over a growable heap.  The heap is modelled word by word:     *)
(* mem maps every 8-byte-aligned address of the provider's region to the   *)
(* word stored there, and every C function of mm.c is an operator that     *)
(* takes the process image h (memory, break, the two global pointers) and  *)
(* returns the image after the call (with the return value where the C     *)
(* function has one).  Machine words are scaled from 64 to WordBits bits;  *)
(* all size_t arithmetic is taken modulo 2^WordBits.                       *)
(***************************************************************************)
EXTENDS Integers, Sequences, FiniteSets, TLC

VARIABLES mem, mem_brk, mem_max, heap_listp, seg_listp, phase, owned, last, steps

vars == <<mem, mem_brk, mem_max, heap_listp, seg_listp, phase, owned, last, steps>>

-----------------------------------------------------------------------------
(* Bounds of the model *)

\* width of a machine word (size_t, pointers) in the scaled model
WordBits == 16
\* number of caller operations in one run
MaxSteps == 4
\* bytes the provider can hand out beyond what mm_init takes
MaxGrow == 560
\* calls the caller of SpecDeep makes
MaxDeepSteps == 7

WordMod == 2 ^ WordBits

-----------------------------------------------------------------------------
(* Program constants *)

ALIGNMENT == 16
WSIZE == 8
DSIZE == 16
CHUNKSIZE == 4096
SEGLIST_CLASSES == 12

NULL == 0

\* (void *)-1, the provider's failure value
SBRK_FAIL == WordMod - 1

\* first address of the provider's region (16-byte aligned, not null)
HeapLo == 16

-----------------------------------------------------------------------------
(* size_t arithmetic *)

Add(a, b) == (a + b) % WordMod
Sub(a, b) == (a - b) % WordMod
Mul(a, b) == (a * b) % WordMod

\* a | b on machine words
RECURSIVE BitOr(_, _)
BitOr(a, b) ==
    IF a = 0 THEN b
    ELSE IF b = 0 THEN a
    ELSE (IF a % 2 = 1 \/ b % 2 = 1 THEN 1 ELSE 0) + 2 * BitOr(a \div 2, b \div 2)

-----------------------------------------------------------------------------
(* Helper functions of mm.c *)

PACK(size, alloc) == BitOr(size, alloc)

GET(h, p) == h.mem[p]

PUT(h, p, val) == [h EXCEPT !.mem[p] = val]

\* GET(p) & ~0x7
GET_SIZE(h, p) == GET(h, p) - (GET(h, p) % 8)

\* GET(p) & 0x1
GET_ALLOC(h, p) == GET(h, p) % 2

HDRP(bp) == Sub(bp, WSIZE)

FTRP(h, bp) == Sub(Add(bp, GET_SIZE(h, HDRP(bp))), DSIZE)

NEXT_BLKP(h, bp) == Add(bp, GET_SIZE(h, Sub(bp, WSIZE)))

PREV_BLKP(h, bp) == Sub(bp, GET_SIZE(h, Sub(bp, DSIZE)))

\* GET(p) & 0x2
PREV_ALLOC(h, p) == 2 * ((GET(h, p) \div 2) % 2)

PUT_ADDR(h, p, val) == [h EXCEPT !.mem[p] = val]

NEXT_FREE_ADDR(bp) == bp

PREV_FREE_ADDR(bp) == Add(bp, WSIZE)

get_segclass_ind(size) ==
    IF size <= 32 THEN 0
    ELSE IF size <= 64 THEN 1
    ELSE IF size <= 128 THEN 2
    ELSE IF size <= 256 THEN 3
    ELSE IF size <= 512 THEN 4
    ELSE IF size <= 1024 THEN 5
    ELSE IF size <= 2048 THEN 6
    ELSE IF size <= 4096 THEN 7
    ELSE IF size <= 8192 THEN 8
    ELSE IF size <= 16384 THEN 9
    ELSE IF size <= 32768 THEN 10
    ELSE 11

\* align with the rounding of a word instead of ALIGNMENT: what C2 rules out
align_to_word(x) == Mul(WSIZE, Add(x, WSIZE - 1) \div WSIZE)

align(x) == Mul(ALIGNMENT, Add(x, ALIGNMENT - 1) \div ALIGNMENT)

\* bytes mm_init obtains when every provider call succeeds: the bucket roots,
\* the pad/prologue/epilogue words and the first extension
InitBytes == SEGLIST_CLASSES * WSIZE + 4 * WSIZE + align(CHUNKSIZE \div WSIZE)

\* one past the last address the provider can ever hand out
HeapTop == HeapLo + InitBytes + MaxGrow

\* addresses of the words of the provider's region
WordAddrs == {a \in HeapLo..(HeapTop - 1) : a % WSIZE = 0}

seglist_add(h, bp, size) ==
    LET ind == get_segclass_ind(size)
        class == Add(h.seg_listp, ind * WSIZE)
        first_blk == GET(h, class)
    IN  IF first_blk # NULL
        THEN LET h1 == PUT_ADDR(h, class, bp)
                 h2 == PUT_ADDR(h1, NEXT_FREE_ADDR(bp), first_blk)
                 h3 == PUT_ADDR(h2, PREV_FREE_ADDR(bp), NULL)
             IN  PUT_ADDR(h3, PREV_FREE_ADDR(first_blk), bp)
        ELSE LET h1 == PUT_ADDR(h, class, bp)
                 h2 == PUT_ADDR(h1, NEXT_FREE_ADDR(bp), NULL)
             IN  PUT_ADDR(h2, PREV_FREE_ADDR(bp), NULL)

\* seglist_delete that, for a block in the middle of a list, links the block
\* before it forward and leaves the block after it pointing back at the
\* deleted one: what C15 rules out
seglist_delete_one_way(h, bp, size) ==
    LET ind == get_segclass_ind(size)
        next == GET(h, NEXT_FREE_ADDR(bp))
        prev == GET(h, PREV_FREE_ADDR(bp))
    IN  IF next # NULL /\ prev = NULL
        THEN PUT_ADDR(PUT_ADDR(h, Add(h.seg_listp, ind * WSIZE), next),
                      PREV_FREE_ADDR(next), NULL)
        ELSE IF next = NULL /\ prev # NULL
        THEN PUT_ADDR(h, NEXT_FREE_ADDR(prev), NULL)
        ELSE IF next # NULL /\ prev # NULL
        THEN PUT_ADDR(h, NEXT_FREE_ADDR(prev), next)
        ELSE PUT_ADDR(h, Add(h.seg_listp, ind * WSIZE), NULL)

seglist_delete(h, bp, size) ==
    LET ind == get_segclass_ind(size)
        next == GET(h, NEXT_FREE_ADDR(bp))
        prev == GET(h, PREV_FREE_ADDR(bp))
    IN  IF next # NULL /\ prev = NULL
        THEN PUT_ADDR(PUT_ADDR(h, Add(h.seg_listp, ind * WSIZE), next),
                      PREV_FREE_ADDR(next), NULL)
        ELSE IF next = NULL /\ prev # NULL
        THEN PUT_ADDR(h, NEXT_FREE_ADDR(prev), NULL)
        ELSE IF next # NULL /\ prev # NULL
        THEN PUT_ADDR(PUT_ADDR(h, PREV_FREE_ADDR(next), prev),
                      NEXT_FREE_ADDR(prev), next)
        ELSE PUT_ADDR(h, Add(h.seg_listp, ind * WSIZE), NULL)

(* A C function whose statements read what earlier statements of the same   *)
(* call wrote is split at those statements: f_N(h, ...) is the rest of     *)
(* function f from source line N on, h the image and the other parameters  *)
(* its local variables at that point.  The parts of a function are defined *)
(* last statement first.                                                   *)

\* the footer of bp becomes a copy of its header: PUT(FTRP(bp), GET(HDRP(bp)))
copy_header_to_footer(h, bp) == PUT(h, FTRP(h, bp), GET(h, HDRP(bp)))

\* coalesce, next free: lines 254-256
coalesce_254(h, bp, prev_alloc, size) ==
    [h |-> seglist_add(copy_header_to_footer(PUT(h, HDRP(bp), PACK(size, prev_alloc)), bp),
                       bp, size),
     ret |-> bp]

\* coalesce, next free: line 253
coalesce_253(h, bp, prev_alloc, size) ==
    coalesce_254(h, bp, prev_alloc, Add(size, GET_SIZE(h, HDRP(NEXT_BLKP(h, bp)))))

\* coalesce, next free, leaving the absorbed block in its bucket: what C11
\* rules out
coalesce_252_keeps_next(h, bp, prev_alloc, size) == coalesce_253(h, bp, prev_alloc, size)

\* coalesce, next free: line 252
coalesce_252(h, bp, prev_alloc, size) ==
    coalesce_253(seglist_delete(h, NEXT_BLKP(h, bp), GET_SIZE(h, HDRP(NEXT_BLKP(h, bp)))),
                 bp, prev_alloc, size)

\* coalesce, prev free (lines 264-265) and both free (lines 274-275)
coalesce_264(h, bp, size) ==
    [h |-> seglist_add(h, PREV_BLKP(h, bp), size), ret |-> PREV_BLKP(h, bp)]

\* coalesce, prev free: line 263, and both free: line 273
coalesce_263(h, bp, size) ==
    coalesce_264(copy_header_to_footer(h, PREV_BLKP(h, bp)), bp, size)

\* coalesce, prev free: line 262, and both free: line 272
coalesce_262(h, bp, size) ==
    coalesce_263(PUT(h, HDRP(PREV_BLKP(h, bp)),
                     PACK(size, PREV_ALLOC(h, HDRP(PREV_BLKP(h, bp))))),
                 bp, size)

\* coalesce, prev free, not adding the size of the block before: what C16
\* rules out
coalesce_261_no_sum(h, bp, size) == coalesce_262(h, bp, size)

\* coalesce, prev free: line 261
coalesce_261(h, bp, size) ==
    coalesce_262(h, bp, Add(size, GET_SIZE(h, HDRP(PREV_BLKP(h, bp)))))

\* coalesce, prev free: line 260
coalesce_260(h, bp, size) ==
    coalesce_261(seglist_delete(h, PREV_BLKP(h, bp), GET_SIZE(h, HDRP(PREV_BLKP(h, bp)))),
                 bp, size)

\* coalesce, both free: line 271
coalesce_271(h, bp, size) ==
    coalesce_262(h, bp, Add(size, Add(GET_SIZE(h, HDRP(PREV_BLKP(h, bp))),
                                      GET_SIZE(h, HDRP(NEXT_BLKP(h, bp))))))

\* coalesce, both free: line 270
coalesce_270(h, bp, size) ==
    coalesce_271(seglist_delete(h, NEXT_BLKP(h, bp), GET_SIZE(h, HDRP(NEXT_BLKP(h, bp)))),
                 bp, size)

\* coalesce, both free: line 269
coalesce_269(h, bp, size) ==
    coalesce_270(seglist_delete(h, PREV_BLKP(h, bp), GET_SIZE(h, HDRP(PREV_BLKP(h, bp)))),
                 bp, size)

\* coalesce returning as soon as one neighbour is allocated: what C10 rules out
coalesce_247_either(h, bp, prev_alloc, next_alloc, size) ==
    IF prev_alloc # 0 \/ next_alloc # 0
    THEN [h |-> h, ret |-> bp]
    ELSE coalesce_269(seglist_delete(h, bp, size), bp, size)

\* coalesce treating a block between two free blocks as one with a free
\* predecessor only: what C20 rules out
coalesce_247_forgets_next(h, bp, prev_alloc, next_alloc, size) ==
    IF prev_alloc # 0 /\ next_alloc # 0
    THEN [h |-> h, ret |-> bp]
    ELSE IF prev_alloc # 0 /\ next_alloc = 0
    THEN coalesce_252(seglist_delete(h, bp, size), bp, prev_alloc, size)
    ELSE coalesce_260(seglist_delete(h, bp, size), bp, size)

\* coalesce, the four cases: lines 247-277
coalesce_247(h, bp, prev_alloc, next_alloc, size) ==
    IF prev_alloc # 0 /\ next_alloc # 0
    THEN [h |-> h, ret |-> bp]
    ELSE IF prev_alloc # 0 /\ next_alloc = 0
    THEN coalesce_252(seglist_delete(h, bp, size), bp, prev_alloc, size)
    ELSE IF prev_alloc = 0 /\ next_alloc # 0
    THEN coalesce_260(seglist_delete(h, bp, size), bp, size)
    ELSE coalesce_269(seglist_delete(h, bp, size), bp, size)

\* returns [h |-> the image after the call, ret |-> the merged block]
coalesce(h, bp) ==
    coalesce_247(h, bp, PREV_ALLOC(h, HDRP(bp)), GET_ALLOC(h, HDRP(NEXT_BLKP(h, bp))),
                 GET_SIZE(h, HDRP(bp)))

\* The heap provider (memlib): grow the region by incr bytes and return the
\* old break, or fail ((void *)-1) and change nothing.
mem_sbrk(h, incr) ==
    IF h.brk + incr > h.max
    THEN [h |-> h, ret |-> SBRK_FAIL]
    ELSE [h |-> [h EXCEPT !.brk = h.brk + incr], ret |-> h.brk]

\* extend_heap: lines 289-290
extend_heap_289(h, bp) == coalesce(PUT(h, HDRP(NEXT_BLKP(h, bp)), PACK(0, 1)), bp)

\* extend_heap: lines 287-288
extend_heap_287(h, bp, size) ==
    extend_heap_289(seglist_add(copy_header_to_footer(h, bp), bp, size), bp)

\* extend_heap: line 286
extend_heap_286(h, bp, size) ==
    extend_heap_287(PUT(h, HDRP(bp), PACK(size, PREV_ALLOC(h, HDRP(bp)))), bp, size)

\* extend_heap: lines 284-285, r the provider's answer
extend_heap_284(r, size) ==
    IF r.ret = SBRK_FAIL
    THEN [h |-> r.h, ret |-> NULL]
    ELSE extend_heap_286(r.h, r.ret, size)

\* returns [h, ret]; ret = NULL when the provider refuses
extend_heap(h, words) == extend_heap_284(mem_sbrk(h, align(words)), align(words))

RECURSIVE seglist_search_loop(_, _, _, _, _)
\* the while loop of seglist_search: lines 300-311
seglist_search_loop(h, size, curr, best, diff) ==
    IF curr = NULL THEN best
    ELSE IF size <= GET_SIZE(h, HDRP(curr))
            /\ (best = NULL \/ diff > Sub(GET_SIZE(h, HDRP(curr)), size))
         THEN IF Sub(GET_SIZE(h, HDRP(curr)), size) = 0
              THEN curr
              ELSE seglist_search_loop(h, size, GET(h, NEXT_FREE_ADDR(curr)), curr,
                                       Sub(GET_SIZE(h, HDRP(curr)), size))
         ELSE seglist_search_loop(h, size, GET(h, NEXT_FREE_ADDR(curr)), best, diff)

\* the first block from curr on that holds size bytes
RECURSIVE first_fit_loop(_, _, _)
first_fit_loop(h, size, curr) ==
    IF curr = NULL THEN NULL
    ELSE IF size <= GET_SIZE(h, HDRP(curr)) THEN curr
    ELSE first_fit_loop(h, size, GET(h, NEXT_FREE_ADDR(curr)))

\* seglist_search taking the first block that fits: what C17 rules out
seglist_search_first(h, list, size) ==
    first_fit_loop(h, size, GET(h, Add(h.seg_listp, list * WSIZE)))

seglist_search(h, list, size) ==
    seglist_search_loop(h, size, GET(h, Add(h.seg_listp, list * WSIZE)), NULL, 0)

RECURSIVE find_fit_loop(_, _, _, _)
\* the for loop of find_fit: lines 319-324, bp what seglist_search(i, asize) returned
find_fit_loop(h, asize, i, bp) ==
    IF bp # NULL THEN bp
    ELSE IF i + 1 >= SEGLIST_CLASSES THEN NULL
    ELSE find_fit_loop(h, asize, i + 1, seglist_search(h, i + 1, asize))

\* find_fit searching only the bucket of asize: what C18 rules out
find_fit_own_class(h, asize) == seglist_search(h, get_segclass_ind(asize), asize)

find_fit(h, asize) ==
    find_fit_loop(h, asize, get_segclass_ind(asize),
                  seglist_search(h, get_segclass_ind(asize), asize))

\* place, split, writing the footer of the remainder without the prev-alloc
\* bit its header has: what C13 rules out
place_337_bare_footer(h, bp, rest) == seglist_add(PUT(h, FTRP(h, bp), PACK(rest, 0)), bp, rest)

\* place, split: lines 337-338, bp the block after the allocated one
place_337(h, bp, rest) == seglist_add(PUT(h, FTRP(h, bp), PACK(rest, 2)), bp, rest)

\* place, split: line 336
place_336(h, bp, rest) == place_337(PUT(h, HDRP(bp), PACK(rest, 2)), bp, rest)

\* place, split, giving the remainder the whole old size: what C14 rules out
place_335_whole(h, bp, asize, csize) == place_336(h, NEXT_BLKP(h, bp), csize)

\* place, split: line 335
place_335(h, bp, asize, csize) == place_336(h, NEXT_BLKP(h, bp), Sub(csize, asize))

\* place, split: line 334
place_334(h, bp, asize, csize) ==
    place_335(PUT(h, HDRP(bp), PACK(asize, PACK(PREV_ALLOC(h, HDRP(bp)), 1))),
              bp, asize, csize)

\* place, no split, writing the next header from its size alone and so
\* dropping its allocated bit: what C3 rules out
place_343_clears_next(h, bp) ==
    PUT(h, HDRP(NEXT_BLKP(h, bp)), PACK(GET_SIZE(h, HDRP(NEXT_BLKP(h, bp))), 2))

\* place, no split: line 343
place_343(h, bp) ==
    PUT(h, HDRP(NEXT_BLKP(h, bp)), PACK(GET(h, HDRP(NEXT_BLKP(h, bp))), 2))

\* place, no split: line 342
place_342(h, bp, csize) ==
    place_343(PUT(h, HDRP(bp), PACK(csize, PACK(PREV_ALLOC(h, HDRP(bp)), 1))), bp)

\* place leaving an unsplit block in its bucket: what C1 rules out
place_331_keeps_listed(h, bp, asize, csize) ==
    IF Sub(csize, asize) >= 2 * DSIZE
    THEN place_334(seglist_delete(h, bp, csize), bp, asize, csize)
    ELSE place_342(h, bp, csize)

\* place splitting as soon as DSIZE bytes are left over: what C19 rules out
place_331_splits_small(h, bp, asize, csize) ==
    IF Sub(csize, asize) >= DSIZE
    THEN place_334(seglist_delete(h, bp, csize), bp, asize, csize)
    ELSE place_342(seglist_delete(h, bp, csize), bp, csize)

\* place: lines 331-344
place_331(h, bp, asize, csize) ==
    IF Sub(csize, asize) >= 2 * DSIZE
    THEN place_334(seglist_delete(h, bp, csize), bp, asize, csize)
    ELSE place_342(seglist_delete(h, bp, csize), bp, csize)

place(h, bp, asize) == place_331(h, bp, asize, GET_SIZE(h, HDRP(bp)))

-----------------------------------------------------------------------------
(* Public functions of mm.c *)

RECURSIVE init_seglist(_, _)
\* the for loop of mm_init: lines 358-360
init_seglist(h, i) ==
    IF i >= SEGLIST_CLASSES THEN h
    ELSE init_seglist(PUT_ADDR(h, Add(h.seg_listp, i * WSIZE), NULL), i + 1)

\* mm_init: lines 364-368
mm_init_364(h) ==
    [PUT(PUT(PUT(PUT(h, h.heap_listp, 0),
                 h.heap_listp + 1 * WSIZE, PACK(DSIZE, 1)),
             h.heap_listp + 2 * WSIZE, PACK(DSIZE, 1)),
         h.heap_listp + 3 * WSIZE, PACK(0, PACK(2, 1)))
     EXCEPT !.heap_listp = h.heap_listp + 4 * WSIZE]

\* mm_init: lines 371-373, r what extend_heap returned
mm_init_371(r) == [h |-> r.h, ret |-> r.ret # NULL]

\* mm_init: lines 362-373, r the provider's answer
mm_init_362(r) ==
    IF r.ret = SBRK_FAIL
    THEN [h |-> [r.h EXCEPT !.heap_listp = r.ret], ret |-> FALSE]
    ELSE mm_init_371(extend_heap(mm_init_364([r.h EXCEPT !.heap_listp = r.ret]),
                                 CHUNKSIZE \div WSIZE))

\* mm_init: lines 354-373, r the provider's answer
mm_init_354(r) ==
    IF r.ret = SBRK_FAIL
    THEN [h |-> [r.h EXCEPT !.seg_listp = r.ret], ret |-> FALSE]
    ELSE mm_init_362(mem_sbrk(init_seglist([r.h EXCEPT !.seg_listp = r.ret], 0), 4 * WSIZE))

\* returns [h, ret]; ret is the bool mm_init returns
mm_init(h) == mm_init_354(mem_sbrk(h, SEGLIST_CLASSES * WSIZE))

\* malloc: lines 390-393, r what extend_heap returned
malloc_390(r, asize) ==
    IF r.ret = NULL
    THEN [h |-> r.h, ret |-> NULL, oom |-> TRUE]
    ELSE [h |-> place(r.h, r.ret, asize), ret |-> r.ret, oom |-> FALSE]

\* malloc: lines 386-393, bp what find_fit returned
malloc_386(h, asize, bp) ==
    IF bp # NULL
    THEN [h |-> place(h, bp, asize), ret |-> bp, oom |-> FALSE]
    ELSE malloc_390(extend_heap(h, asize), asize)

\* malloc: lines 384-393
malloc_384(h, asize) == malloc_386(h, asize, find_fit(h, asize))

\* returns [h, ret, oom]; oom records that the provider was asked and refused
malloc(h, size) ==
    IF size <= 0
    THEN [h |-> h, ret |-> NULL, oom |-> FALSE]
    ELSE malloc_384(h, align(Add(size, DSIZE)))

\* free: lines 407-408
free_407(h, ptr, size) == coalesce(seglist_add(h, ptr, size), ptr).h

\* free rewriting the next header as it is, its prev-alloc bit left set: what
\* C12 rules out
free_406_keeps_bit(h, ptr, size) ==
    free_407(PUT(h, HDRP(NEXT_BLKP(h, ptr)), GET(h, HDRP(NEXT_BLKP(h, ptr)))), ptr, size)

\* free: line 406
free_406(h, ptr, size) ==
    free_407(PUT(h, HDRP(NEXT_BLKP(h, ptr)),
                 PACK(GET_SIZE(h, HDRP(NEXT_BLKP(h, ptr))),
                      GET_ALLOC(h, HDRP(NEXT_BLKP(h, ptr))))),
             ptr, size)

\* free leaving the allocated bit in the header: what C7 rules out
free_404_keeps_alloc(h, ptr, size) ==
    free_406(copy_header_to_footer(PUT(h, HDRP(ptr),
                                       PACK(size, PACK(PREV_ALLOC(h, HDRP(ptr)), 1))),
                                   ptr),
             ptr, size)

\* free: lines 404-405
free_404(h, ptr, size) ==
    free_406(copy_header_to_footer(PUT(h, HDRP(ptr), PACK(size, PREV_ALLOC(h, HDRP(ptr)))),
                                   ptr),
             ptr, size)

free(h, ptr) ==
    IF ptr = NULL
    THEN h
    ELSE free_404(h, ptr, GET_SIZE(h, HDRP(ptr)))

\* 256^k, capped at the word range: a scaled word keeps its value in its low
\* WordBits bits and its other bytes are zero
Pow256(k) == IF 8 * k >= WordBits THEN WordMod ELSE 2 ^ (8 * k)

\* the word at dst after its low k bytes (little-endian) are taken from src
CopyBytes(d, s, k) ==
    IF k >= WSIZE THEN s ELSE (s % Pow256(k)) + (d - (d % Pow256(k)))

\* memcpy(dst, src, n), word by word from offset i; the last word may be partial
RECURSIVE memcpy_from(_, _, _, _, _)
memcpy_from(h, dst, src, n, i) ==
    IF i >= n THEN h
    ELSE memcpy_from(PUT(h, Add(dst, i),
                         CopyBytes(GET(h, Add(dst, i)), GET(h, Add(src, i)), n - i)),
                     dst, src, n, i + WSIZE)

memcpy(h, dst, src, n) == memcpy_from(h, dst, src, n, 0)

\* realloc: lines 430-431
realloc_430(h, ptr, oldptr) == [h |-> free(h, oldptr), ret |-> ptr, oom |-> FALSE]

\* realloc freeing the old block although malloc failed: what C4 rules out
realloc_424_frees_on_failure(r, oldptr, size, size_old) ==
    IF r.ret = NULL
    THEN [r EXCEPT !.h = free(r.h, oldptr)]
    ELSE realloc_430(IF size < size_old
                     THEN memcpy(r.h, r.ret, oldptr, size)
                     ELSE memcpy(r.h, r.ret, oldptr, size_old),
                     r.ret, oldptr)

\* realloc freeing the old block before it copies from it: what C5 rules out
realloc_424_frees_first(r, oldptr, size, size_old) ==
    IF r.ret = NULL
    THEN r
    ELSE [h |-> IF size < size_old
                THEN memcpy(free(r.h, oldptr), r.ret, oldptr, size)
                ELSE memcpy(free(r.h, oldptr), r.ret, oldptr, size_old),
          ret |-> r.ret, oom |-> FALSE]

\* realloc: lines 426-429, the number of bytes handed to memcpy
memcpy_len(size, size_old) == IF size < size_old THEN size ELSE size_old

\* realloc: lines 424-431, r what malloc returned
realloc_424(r, oldptr, size, size_old) ==
    IF r.ret = NULL
    THEN r
    ELSE realloc_430(memcpy(r.h, r.ret, oldptr, memcpy_len(size, size_old)),
                     r.ret, oldptr)

\* realloc: lines 416-432
realloc_416(h, oldptr, size, size_old) ==
    IF oldptr = NULL
    THEN malloc(h, size)
    ELSE IF size = 0
    THEN [h |-> free(h, oldptr), ret |-> NULL, oom |-> FALSE]
    ELSE realloc_424(malloc(h, align(size)), oldptr, size, size_old)

\* returns [h, ret, oom]; size_old is read (line 415) before oldptr is tested
realloc(h, oldptr, size) == realloc_416(h, oldptr, size, GET_SIZE(h, HDRP(oldptr)))

-----------------------------------------------------------------------------
(* Walks of the heap, as mm_checkheap makes them *)

\* payload addresses of the blocks from bp up to the epilogue, in address order
RECURSIVE walk_from(_, _)
walk_from(h, bp) ==
    IF GET_SIZE(h, HDRP(bp)) = 0 THEN <<>>
    ELSE <<bp>> \o walk_from(h, NEXT_BLKP(h, bp))

heap_blocks(h) == walk_from(h, h.heap_listp)

\* payload addresses of the blocks of bucket i, from its root
RECURSIVE list_from(_, _)
list_from(h, curr) ==
    IF curr = NULL THEN <<>>
    ELSE <<curr>> \o list_from(h, GET(h, NEXT_FREE_ADDR(curr)))

bucket_blocks(h, i) == list_from(h, GET(h, Add(h.seg_listp, i * WSIZE)))

RECURSIVE SumSizes(_, _, _)
SumSizes(h, bs, i) ==
    IF i > Len(bs) THEN 0
    ELSE (IF GET_ALLOC(h, HDRP(bs[i])) = 0 THEN GET_SIZE(h, HDRP(bs[i])) ELSE 0)
         + SumSizes(h, bs, i + 1)

\* total number of free bytes: the sum of the sizes of the free blocks
free_bytes(h) == SumSizes(h, heap_blocks(h), 1)

-----------------------------------------------------------------------------
(* The state machine: the caller's calls on the allocator *)

\* the process image the C functions work on
Image == [mem |-> mem, brk |-> mem_brk, max |-> mem_max,
          seg_listp |-> seg_listp, heap_listp |-> heap_listp]

\* request sizes the caller uses
Requests == {1, 40, 200, 500}

\* sizes the caller passes to realloc
ReallocSizes == {0, 17, 200}

\* requests within 32 of the end of the word range
WrapRequests == {WordMod - 1, WordMod - ALIGNMENT, WordMod - ALIGNMENT - 1, WordMod - 2 * ALIGNMENT}

\* what the provider can hand out in all: too little for the bucket roots, for
\* the prologue, for the first extension; exactly mm_init's need; room to grow
Capacities == {SEGLIST_CLASSES * WSIZE - WSIZE,
               SEGLIST_CLASSES * WSIZE + 2 * WSIZE,
               InitBytes - ALIGNMENT,
               InitBytes,
               InitBytes + MaxGrow}

\* the record of the last call: the function, its arguments ptr and n, what it
\* returned, whether the provider refused, the bytes the heap grew by, the free
\* bytes before the call (malloc), and for a free whether it frees what the
\* directly preceding malloc returned (it then carries that malloc's n, grew, fb)
NoCall == [op |-> "none", ptr |-> NULL, n |-> 0, ret |-> NULL, oom |-> FALSE,
           grew |-> 0, fb |-> 0, rt |-> FALSE]

Init ==
    /\ mem = [a \in WordAddrs |-> 0]
    /\ mem_brk = HeapLo
    /\ mem_max \in {HeapLo + c : c \in Capacities}
    /\ heap_listp = NULL
    /\ seg_listp = NULL
    /\ phase = "boot"
    /\ owned = <<>>
    /\ last = NoCall
    /\ steps = 0

\* the image h becomes the state
Install(h) ==
    /\ mem' = h.mem
    /\ mem_brk' = h.brk
    /\ heap_listp' = h.heap_listp
    /\ seg_listp' = h.seg_listp
    /\ UNCHANGED mem_max

\* owned without the address p
Disown(o, p) == [q \in (DOMAIN o) \ {p} |-> o[q]]

\* owned with address p holding a request of n bytes
Own(o, p, n) == [q \in (DOMAIN o) \cup {p} |-> IF q = p THEN n ELSE o[q]]

MmInit ==
    /\ phase = "boot"
    /\ \E r \in {mm_init(Image)} :
           /\ Install(r.h)
           /\ phase' = IF r.ret THEN "ready" ELSE "init_failed"
           /\ last' = [NoCall EXCEPT !.op = "init", !.ret = IF r.ret THEN 1 ELSE 0,
                                     !.grew = r.h.brk - mem_brk]
    /\ UNCHANGED <<owned, steps>>

\* the effect of a call of malloc(n) by the caller
DoMalloc(n) ==
    \E r \in {malloc(Image, n)} :
        /\ Install(r.h)
        /\ owned' = IF r.ret = NULL THEN owned ELSE Own(owned, r.ret, n)
        /\ last' = [op |-> "malloc", ptr |-> NULL, n |-> n, ret |-> r.ret, oom |-> r.oom,
                    grew |-> r.h.brk - mem_brk, fb |-> free_bytes(Image), rt |-> FALSE]
        /\ steps' = steps + 1

Malloc ==
    /\ phase = "ready"
    /\ steps < MaxSteps
    /\ \E n \in Requests : DoMalloc(n)
    /\ UNCHANGED phase

\* the effect of a call of free(p) by the caller
DoFree(p) ==
    /\ Install(free(Image, p))
    /\ owned' = Disown(owned, p)
    /\ last' = IF last.op = "malloc" /\ last.ret = p
                THEN [last EXCEPT !.op = "free", !.ptr = p, !.ret = NULL, !.rt = TRUE]
                ELSE [NoCall EXCEPT !.op = "free", !.ptr = p]
    /\ steps' = steps + 1

Free ==
    /\ phase = "ready"
    /\ steps < MaxSteps
    /\ \E p \in (DOMAIN owned) \cup {NULL} : DoFree(p)
    /\ UNCHANGED phase

\* realloc of a live address
Realloc ==
    /\ phase = "ready"
    /\ steps < MaxSteps
    /\ \E p \in DOMAIN owned : \E n \in ReallocSizes :
          \E r \in {realloc(Image, p, n)} :
              /\ Install(r.h)
              /\ owned' = IF n = 0 THEN Disown(owned, p)
                          ELSE IF r.ret = NULL THEN owned
                          ELSE Own(Disown(owned, p), r.ret, n)
              /\ last' = [op |-> "realloc", ptr |-> p, n |-> n, ret |-> r.ret,
                          oom |-> r.oom, grew |-> r.h.brk - mem_brk, fb |-> 0, rt |-> FALSE]
    /\ steps' = steps + 1
    /\ UNCHANGED phase

\* realloc(NULL, n): line 415 reads the header word at NULL - WSIZE before the
\* null test.  That address is outside the provider's region: the read either
\* faults (the process dies) or yields a value that is never used.
ReallocNull ==
    /\ phase = "ready"
    /\ steps < MaxSteps
    /\ \E n \in ReallocSizes :
          \/ /\ HDRP(NULL) \notin WordAddrs
             /\ phase' = "crashed"
             /\ last' = [NoCall EXCEPT !.op = "realloc", !.n = n]
             /\ UNCHANGED <<mem, mem_brk, mem_max, heap_listp, seg_listp, owned>>
          \/ \E r \in {realloc(Image, NULL, n)} :
                 /\ Install(r.h)
                 /\ owned' = IF r.ret = NULL THEN owned ELSE Own(owned, r.ret, n)
                 /\ last' = [op |-> "realloc", ptr |-> NULL, n |-> n, ret |-> r.ret,
                             oom |-> r.oom, grew |-> r.h.brk - mem_brk, fb |-> 0, rt |-> FALSE]
                 /\ UNCHANGED phase
    /\ steps' = steps + 1

\* the word the caller stores at address a
Data(a) == 256 * (1 + (a \div WSIZE)) + 171

\* the caller stores its data in the first n bytes at p, from offset i
RECURSIVE store_from(_, _, _, _)
store_from(h, p, n, i) ==
    IF i >= n THEN h
    ELSE store_from(PUT(h, p + i, CopyBytes(GET(h, p + i), Data(p + i), n - i)),
                    p, n, i + WSIZE)

\* the caller writes the bytes it owns at a live address
Write ==
    /\ phase = "ready"
    /\ steps < MaxSteps
    /\ \E p \in DOMAIN owned :
          /\ Install(store_from(Image, p, owned[p], 0))
          /\ last' = [NoCall EXCEPT !.op = "write", !.ptr = p]
    /\ steps' = steps + 1
    /\ UNCHANGED <<phase, owned>>

Next == MmInit \/ Malloc \/ Free \/ Realloc \/ ReallocNull \/ Write

Spec == Init /\ [][Next]_vars

\* malloc of a request near the end of the word range; the run is followed up
\* to the return of this call
MallocWrap ==
    /\ phase = "ready"
    /\ steps < MaxSteps
    /\ \E n \in WrapRequests : DoMalloc(n)
    /\ phase' = "stopped"

NextWrap == Next \/ MallocWrap

SpecWrap == Init /\ [][NextWrap]_vars

\* A caller that only allocates and frees, with requests whose adjusted sizes
\* (32, 144, 160) fill buckets with several blocks, followed for more calls
DeepRequests == {1, 128, 144}

MallocDeep ==
    /\ phase = "ready"
    /\ steps < MaxDeepSteps
    /\ \E n \in DeepRequests : DoMalloc(n)
    /\ UNCHANGED phase

FreeDeep ==
    /\ phase = "ready"
    /\ steps < MaxDeepSteps
    /\ \E p \in DOMAIN owned : DoFree(p)
    /\ UNCHANGED phase

NextDeep == MmInit \/ MallocDeep \/ FreeDeep

\* the provider of SpecDeep has room to grow
InitDeep == Init /\ mem_max = HeapLo + InitBytes + MaxGrow

SpecDeep == InitDeep /\ [][NextDeep]_vars

-----------------------------------------------------------------------------
(* What the claims speak of *)

\* the image after the step
ImageNext == [mem |-> mem', brk |-> mem_brk', max |-> mem_max',
              seg_listp |-> seg_listp', heap_listp |-> heap_listp']

\* the addresses the caller holds: returned and not yet freed
Live == DOMAIN owned

BlockSize(h, p) == GET_SIZE(h, HDRP(p))

\* the block of p is [p - 8, p - 8 + size(p))
BlockLo(p) == p - WSIZE
BlockHi(h, p) == p - WSIZE + BlockSize(h, p)

\* the addresses of the words of the payload [p, p + size - 8) of p
PayloadWords(h, p) == {a \in WordAddrs : p <= a /\ a < BlockHi(h, p)}

\* byte a of memory m: words are little-endian and a scaled word has its
\* value in its low bytes
ByteAt(m, a) ==
    IF 8 * (a % WSIZE) >= WordBits THEN 0
    ELSE (m[a - (a % WSIZE)] \div (2 ^ (8 * (a % WSIZE)))) % 256

\* the step is a call of the allocator (not a store of the caller)
AllocatorStep == last'.op \in {"malloc", "free", "realloc"}

\* block p has the same size field, alloc bit and payload words after the step
Untouched(p) ==
    /\ BlockSize(ImageNext, p) = BlockSize(Image, p)
    /\ GET_ALLOC(ImageNext, HDRP(p)) = GET_ALLOC(Image, HDRP(p))
    /\ \A a \in PayloadWords(Image, p) : mem'[a] = mem[a]

\* the blocks of the heap that are free, in address order
FreeBlocks(h) == SelectSeq(heap_blocks(h), LAMBDA b : GET_ALLOC(h, HDRP(b)) = 0)

\* no two blocks adjacent in address order are both free
NoAdjacentFreeIn(h, bs) ==
    \A i \in 1..(Len(bs) - 1) :
        ~(GET_ALLOC(h, HDRP(bs[i])) = 0 /\ GET_ALLOC(h, HDRP(bs[i + 1])) = 0)

NoAdjacentFree(h) == NoAdjacentFreeIn(h, heap_blocks(h))

\* the blocks of the heap that hold address a
BlocksHolding(h, a) ==
    {i \in 1..Len(heap_blocks(h)) :
        BlockLo(heap_blocks(h)[i]) <= a /\ a < BlockHi(h, heap_blocks(h)[i])}

-----------------------------------------------------------------------------
(* C1 *)

\* the blocks of any two live addresses do not overlap
LiveBlocksDisjoint ==
    \A p, q \in Live :
        p # q => (BlockHi(Image, p) <= BlockLo(q) \/ BlockHi(Image, q) <= BlockLo(p))

\* an address returned by malloc or realloc is not one the caller already holds
ReturnsFreshAddress ==
    (last'.op \in {"malloc", "realloc"} /\ last'.ret # NULL) => last'.ret \notin Live

\* C1: after init and any sequence of malloc/free/realloc calls on live
\* addresses, any two live addresses are distinct (no call returns an address
\* that is still live) and their blocks [p-8, p-8+size(p)) do not overlap.
C1_LiveAddressesDistinctAndDisjoint ==
    [](phase = "ready" => LiveBlocksDisjoint) /\ [][ReturnsFreshAddress]_vars

\* malloc has reused a freed block below an address that is still live
C1_Witness ==
    /\ phase = "ready"
    /\ Cardinality(Live) >= 2
    /\ steps = MaxSteps
    /\ last.op = "malloc" /\ last.ret # NULL
    /\ \E p \in Live : p > last.ret

-----------------------------------------------------------------------------
(* C2 *)

\* C2: the provider's region starting 16-byte aligned, every non-null address
\* returned by malloc or realloc (the one just returned and all still live) is a
\* multiple of 16 and lies after the prologue and before the epilogue header.
C2_ReturnedAddressesAlignedInside ==
    phase = "ready" =>
        \A p \in Live \cup (IF last.op \in {"malloc", "realloc"} THEN {last.ret} \ {NULL} ELSE {}) :
            /\ p % ALIGNMENT = 0
            /\ p > heap_listp - DSIZE
            /\ p < mem_brk - WSIZE

\* realloc returned a block of an extension of the heap
C2_Witness ==
    /\ phase = "ready"
    /\ last.op = "realloc" /\ last.ret # NULL /\ last.grew > 0
    /\ Cardinality(Live) >= 2

-----------------------------------------------------------------------------
(* C3 *)

\* C3: blocks never move and caller-owned bytes are never touched: a call of
\* malloc, free or realloc leaves the size field, the alloc bit and every
\* payload word of each block that is live before and after the call and is not
\* the call's own argument as they were.
C3_LiveBlocksUntouched ==
    [][AllocatorStep =>
          \A p \in (Live \cap DOMAIN owned') \ {last'.ptr} : Untouched(p)]_vars

\* the block after a live block the caller has written was freed and merged
\* with the free block that ends the heap
C3_Witness ==
    /\ phase = "ready"
    /\ last.op = "free" /\ last.ptr # NULL
    /\ \E p \in Live :
          /\ BlockHi(Image, p) = BlockLo(last.ptr)
          /\ mem[p] = Data(p)
    /\ GET_ALLOC(Image, HDRP(last.ptr)) = 0
    /\ BlockHi(Image, last.ptr) = mem_brk - WSIZE

-----------------------------------------------------------------------------
(* C4 *)

\* C4: when the provider refuses to grow during malloc(n) or realloc(p, n), the
\* call returns null and the whole heap (every header, footer, bucket root and
\* link, the break, the two roots) is as before the call; for realloc, p is
\* still live, allocated, with its payload unchanged.
C4_OutOfMemoryChangesNothing ==
    [][last'.oom =>
          /\ last'.ret = NULL
          /\ mem' = mem
          /\ mem_brk' = mem_brk
          /\ heap_listp' = heap_listp
          /\ seg_listp' = seg_listp
          /\ owned' = owned
          /\ (last'.op = "realloc" /\ last'.ptr # NULL =>
                 /\ last'.ptr \in DOMAIN owned'
                 /\ GET_ALLOC(ImageNext, HDRP(last'.ptr)) = 1)]_vars

\* realloc of a live, written block was refused by the provider
C4_Witness ==
    /\ last.oom
    /\ last.op = "realloc"
    /\ last.ptr \in Live
    /\ \E p \in Live : mem[p] = Data(p)

-----------------------------------------------------------------------------
(* C5 *)

\* the step is a successful realloc(p, n) of a live p with n > 0
ReallocMoved ==
    last'.op = "realloc" /\ last'.ptr # NULL /\ last'.n > 0 /\ last'.ret # NULL

\* the smaller of n and the old payload size of p
Kept(p, n) ==
    IF n < BlockSize(Image, p) - WSIZE THEN n ELSE BlockSize(Image, p) - WSIZE

\* C5: a successful realloc(p, n), p live and n > 0, returns an allocated
\* address q # p whose first min(n, old payload size) bytes are the bytes p
\* held before the call; afterwards the block holding p is free with no free
\* neighbour, and every other live block is as before.
C5_ReallocKeepsContents ==
    [][ReallocMoved =>
          /\ last'.ret # last'.ptr
          /\ GET_ALLOC(ImageNext, HDRP(last'.ret)) = 1
          /\ \A i \in 0..(Kept(last'.ptr, last'.n) - 1) :
                ByteAt(mem', last'.ret + i) = ByteAt(mem, last'.ptr + i)
          /\ \A i \in BlocksHolding(ImageNext, last'.ptr) :
                GET_ALLOC(ImageNext, HDRP(heap_blocks(ImageNext)[i])) = 0
          /\ BlocksHolding(ImageNext, last'.ptr) # {}
          /\ NoAdjacentFree(ImageNext)
          /\ \A r \in Live \ {last'.ptr} : Untouched(r)]_vars

\* realloc has moved a block the caller had written, cutting it to 17 bytes:
\* two words and the low byte of the third were copied
C5_Witness ==
    /\ phase = "ready"
    /\ last.op = "realloc" /\ last.ptr # NULL /\ last.ret # NULL
    /\ last.n = 17
    /\ mem[last.ret] = Data(last.ptr)
    /\ mem[last.ret + WSIZE] = Data(last.ptr + WSIZE)
    /\ mem[last.ret + 2 * WSIZE] = Data(last.ptr + 2 * WSIZE) % 256
    /\ Cardinality(Live) >= 2

-----------------------------------------------------------------------------
(* C6 *)

\* C6: realloc(NULL, n) is malloc(n): from every reachable heap and for every
\* n the call completes, returns what malloc(n) returns and leaves the heap as
\* malloc(n) leaves it.
C6_ReallocNullIsMalloc ==
    [][(last'.op = "realloc" /\ last'.ptr = NULL) =>
          /\ phase' = "ready"
          /\ last'.ret = malloc(Image, last'.n).ret
          /\ mem' = malloc(Image, last'.n).h.mem
          /\ mem_brk' = malloc(Image, last'.n).h.brk]_vars

-----------------------------------------------------------------------------
(* C7 *)

\* C7 as claimed: p := malloc(n) directly followed by free(p) brings the total
\* of free bytes back to its value before the malloc.
C7_RoundTripRestoresFreeBytes ==
    (phase = "ready" /\ last.op = "free" /\ last.rt) => free_bytes(Image) = last.fb

\* C7 as amended: p := malloc(n) directly followed by free(p) brings the total
\* of free bytes to its value before the malloc plus the bytes by which that
\* malloc extended the heap (none when it was served from a free block or
\* returned null).
C7_RoundTripFreeBytesPlusGrowth ==
    (phase = "ready" /\ last.op = "free" /\ last.rt) =>
        free_bytes(Image) = last.fb + last.grew

\* a malloc that extended a heap holding live and free blocks, freed at once
C7_Witness ==
    /\ phase = "ready"
    /\ last.op = "free" /\ last.rt /\ last.ptr # NULL
    /\ last.grew > 0
    /\ last.fb > 0
    /\ Live # {}

-----------------------------------------------------------------------------
(* C8 *)

\* the blocks listed in the buckets, bucket by bucket
RECURSIVE listed_from(_, _)
listed_from(h, i) ==
    IF i >= SEGLIST_CLASSES THEN <<>>
    ELSE bucket_blocks(h, i) \o listed_from(h, i + 1)

\* C8: right after a successful mm_init the region between prologue and
\* epilogue is one free block of 4096 bytes, the only block of any bucket, and
\* the epilogue is a zero-size allocated header; mm_init returns false when a
\* provider call fails.
C8_InitMakesOneChunk ==
    last.op = "init" =>
        /\ (mem_max < HeapLo + InitBytes => last.ret = 0)
        /\ (last.ret = 1 =>
               /\ heap_blocks(Image) = <<heap_listp>>
               /\ GET_ALLOC(Image, HDRP(heap_listp)) = 0
               /\ BlockSize(Image, heap_listp) = CHUNKSIZE
               /\ listed_from(Image, 0) = <<heap_listp>>
               /\ GET_SIZE(Image, HDRP(NEXT_BLKP(Image, heap_listp))) = 0
               /\ GET_ALLOC(Image, HDRP(NEXT_BLKP(Image, heap_listp))) = 1)

-----------------------------------------------------------------------------
(* C9 *)

\* C9: for every request n > 0 of the word range, the adjusted size
\* align(n + 16) is not smaller than n, and a block malloc(n) returns has a size
\* of at least 32, a multiple of 16, with at least n bytes after its header.
C9_ReturnedBlockHoldsRequest ==
    last.op = "malloc" =>
        /\ align(Add(last.n, DSIZE)) >= last.n
        /\ (last.ret # NULL =>
               /\ BlockSize(Image, last.ret) >= 2 * DSIZE
               /\ BlockSize(Image, last.ret) % ALIGNMENT = 0
               /\ BlockSize(Image, last.ret) - WSIZE >= last.n)

-----------------------------------------------------------------------------
(* C10 *)

\* C10: between any two public calls (after mm_init and after every malloc,
\* free and realloc, also those that extend the heap) no two blocks adjacent
\* in address order are both free.
C10_NoTwoAdjacentFreeBlocks == phase = "ready" => NoAdjacentFree(Image)

\* free has merged a block with the free blocks on both its sides
C10_Witness ==
    /\ phase = "ready"
    /\ last.op = "free" /\ last.ptr # NULL
    /\ \E i \in BlocksHolding(Image, last.ptr) :
          /\ heap_blocks(Image)[i] < last.ptr
          /\ GET_ALLOC(Image, HDRP(heap_blocks(Image)[i])) = 0
          /\ BlockHi(Image, heap_blocks(Image)[i]) > BlockHi(Image, last.ptr)

-----------------------------------------------------------------------------
(* C11 *)

\* the bucket indices
Buckets == 0..(SEGLIST_CLASSES - 1)

\* how often x occurs in the sequence s
Count(s, x) == Cardinality({k \in DOMAIN s : s[k] = x})

\* the elements of the sequence s
Range(s) == {s[k] : k \in DOMAIN s}

\* the free blocks fb of the walk of h and the lists ls of its buckets agree
BucketsAgree(h, fb, ls) ==
    /\ \A b \in fb : \A i \in Buckets :
          Count(ls[i], b) = IF i = get_segclass_ind(BlockSize(h, b)) THEN 1 ELSE 0
    /\ \A i \in Buckets : Range(ls[i]) \subseteq fb

\* C11: between any two public operations every free block of the
\* address-order walk is listed exactly once, in the bucket of its size class
\* and in no other, and every listed block is a free block of the walk (so it
\* lies inside the heap and is neither allocated, absorbed nor stale).
C11_BucketsAgreeWithHeap ==
    phase = "ready" =>
        BucketsAgree(Image, Range(FreeBlocks(Image)), [i \in Buckets |-> bucket_blocks(Image, i)])

\* after a free, with a block still live, two buckets hold free blocks
C11_Witness ==
    /\ phase = "ready"
    /\ last.op = "free" /\ last.ptr # NULL
    /\ Live # {}
    /\ \E i, j \in Buckets :
          i # j /\ bucket_blocks(Image, i) # <<>> /\ bucket_blocks(Image, j) # <<>>

-----------------------------------------------------------------------------
(* C12 *)

\* the payload address after the last block: the epilogue header is the word
\* before it
EpilogueAfter(h, bs) == IF bs = <<>> THEN h.heap_listp ELSE NEXT_BLKP(h, bs[Len(bs)])

Epilogue(h) == EpilogueAfter(h, heap_blocks(h))

\* the blocks after the prologue, in address order, and the epilogue
BlocksAndEpilogue(h) == heap_blocks(h) \o <<Epilogue(h)>>

\* in the sequence bs of blocks of h, the prev-alloc bit of the first is set
\* and that of every other tells whether the one before it is allocated
PrevAllocBitsMatch(h, bs) ==
    /\ PREV_ALLOC(h, HDRP(bs[1])) # 0
    /\ \A i \in 2..Len(bs) :
          (PREV_ALLOC(h, HDRP(bs[i])) # 0) <=> (GET_ALLOC(h, HDRP(bs[i - 1])) # 0)

\* C12: between any two public operations, for every block B after the
\* prologue, the epilogue included, the prev-alloc bit of B's header is set
\* exactly when the block before B in address order is allocated (the first
\* block follows the prologue, which is allocated).
C12_PrevAllocBitMatchesPredecessor ==
    phase = "ready" => PrevAllocBitsMatch(Image, BlocksAndEpilogue(Image))

\* after a free, the heap ends in a block placed without a split (the
\* epilogue's bit is set), one live block follows a free block and one follows
\* an allocated block
C12_Witness ==
    /\ phase = "ready"
    /\ last.op = "free" /\ last.ptr # NULL
    /\ Len(heap_blocks(Image)) >= 3
    /\ PREV_ALLOC(Image, HDRP(Epilogue(Image))) # 0
    /\ \E p, q \in Live :
          /\ p > heap_listp /\ q > heap_listp
          /\ PREV_ALLOC(Image, HDRP(p)) = 0
          /\ PREV_ALLOC(Image, HDRP(q)) # 0

-----------------------------------------------------------------------------
(* C13 *)

\* C13: between any two public operations the footer word of every free block
\* equals its header word (same size, alloc bit 0, same prev-alloc bit), also
\* next to blocks whose placement or release set or cleared a prev-alloc bit.
C13_FreeFooterEqualsHeader ==
    phase = "ready" =>
        \A b \in Range(FreeBlocks(Image)) :
            /\ GET(Image, FTRP(Image, b)) = GET(Image, HDRP(b))
            /\ GET_ALLOC(Image, FTRP(Image, b)) = 0

\* malloc has split a free block that lies before a live block: the remainder
\* is free, is not the last block, and another free block exists
C13_Witness ==
    /\ phase = "ready"
    /\ last.op = "malloc" /\ last.ret # NULL
    /\ GET_ALLOC(Image, HDRP(NEXT_BLKP(Image, last.ret))) = 0
    /\ BlockSize(Image, NEXT_BLKP(Image, last.ret)) > 0
    /\ NEXT_BLKP(Image, NEXT_BLKP(Image, last.ret)) \in Live
    /\ Len(FreeBlocks(Image)) >= 2

-----------------------------------------------------------------------------
(* C14 *)

\* the sum of the sizes of the blocks bs[i..]
RECURSIVE SumAll(_, _, _)
SumAll(h, bs, i) ==
    IF i > Len(bs) THEN 0
    ELSE GET_SIZE(h, HDRP(bs[i])) + SumAll(h, bs, i + 1)

\* the bytes obtained by extension: all the provider handed out after the
\* bucket roots and the pad, prologue and epilogue words of mm_init
ExtensionBytes == mem_brk - (HeapLo + SEGLIST_CLASSES * WSIZE + 4 * WSIZE)

\* the blocks bs of h, followed by the header at address e, tile the region
Tiles(h, bs, e) ==
    /\ e = h.brk - WSIZE
    /\ GET_SIZE(h, e) = 0
    /\ GET_ALLOC(h, e) = 1
    /\ \A b \in Range(bs) : BlockSize(h, b) % ALIGNMENT = 0 /\ BlockSize(h, b) >= 2 * DSIZE
    /\ SumAll(h, bs, 1) = ExtensionBytes

\* C14: between any two public operations the walk over the headers from the
\* first block after the prologue ends at the zero-size epilogue header in the
\* last word of the managed region, every block on the way has a size that is a
\* multiple of 16 and at least 32, and the sizes sum to the bytes obtained by
\* extension.
C14_BlocksTileTheHeap ==
    phase = "ready" => Tiles(Image, heap_blocks(Image), HDRP(Epilogue(Image)))

\* the heap has been extended and holds free and allocated blocks
C14_Witness ==
    /\ phase = "ready"
    /\ last.op \in {"malloc", "realloc"} /\ last.grew > 0
    /\ ExtensionBytes > InitBytes - SEGLIST_CLASSES * WSIZE - 4 * WSIZE
    /\ Len(heap_blocks(Image)) >= 3
    /\ FreeBlocks(Image) # <<>>
    /\ Live # {}

-----------------------------------------------------------------------------
(* C15 *)

\* no heap holds more blocks than this
MaxListed == (HeapTop - HeapLo) \div (2 * DSIZE)

\* the blocks met from curr along the next links, at most fuel of them
RECURSIVE links_upto(_, _, _)
links_upto(h, curr, fuel) ==
    IF curr = NULL \/ fuel = 0 THEN <<>>
    ELSE <<curr>> \o links_upto(h, GET(h, NEXT_FREE_ADDR(curr)), fuel - 1)

\* l, the blocks met from a bucket root, is a null-terminated doubly-linked
\* list without a repeated block
ListOk(h, l) ==
    /\ Len(l) <= MaxListed
    /\ \A j, k \in DOMAIN l : j # k => l[j] # l[k]
    /\ (l # <<>> => GET(h, PREV_FREE_ADDR(l[1])) = NULL)
    /\ \A k \in 1..(Len(l) - 1) : GET(h, PREV_FREE_ADDR(l[k + 1])) = l[k]

\* C15: between any two public operations every bucket is a well-formed
\* doubly-linked list: the head's prev link is null, the next links reach null
\* without meeting a block twice, and the block after X points back at X; so
\* the scan of seglist_search ends.
C15_BucketsWellFormed ==
    phase = "ready" =>
        \A i \in Buckets :
            ListOk(Image, links_upto(Image, GET(Image, Add(seg_listp, i * WSIZE)),
                                     MaxListed + 1))

\* malloc has taken, without a split, a block from the middle of its list: the
\* links left in its payload name its two former neighbours, which are now
\* linked to each other
C15_Witness ==
    /\ phase = "ready"
    /\ last.op = "malloc" /\ last.ret # NULL
    /\ BlockSize(Image, last.ret) = align(Add(last.n, DSIZE))
    /\ GET(Image, NEXT_FREE_ADDR(last.ret)) # NULL
    /\ GET(Image, PREV_FREE_ADDR(last.ret)) # NULL
    /\ GET(Image, NEXT_FREE_ADDR(GET(Image, PREV_FREE_ADDR(last.ret))))
           = GET(Image, NEXT_FREE_ADDR(last.ret))
    /\ GET(Image, PREV_FREE_ADDR(GET(Image, NEXT_FREE_ADDR(last.ret))))
           = GET(Image, PREV_FREE_ADDR(last.ret))
    /\ Len(bucket_blocks(Image, get_segclass_ind(BlockSize(Image, last.ret)))) >= 2

-----------------------------------------------------------------------------
(* C16 *)

\* the position of block p in the walk bs
IndexOf(bs, p) == CHOOSE k \in DOMAIN bs : bs[k] = p

\* the block before the k-th block of the walk bs of h is free
PredFree(h, bs, k) == k > 1 /\ GET_ALLOC(h, HDRP(bs[k - 1])) = 0

\* the block after the k-th block of the walk bs of h is free
SuccFree(h, bs, k) == k < Len(bs) /\ GET_ALLOC(h, HDRP(bs[k + 1])) = 0

\* the k-th block and its free neighbours in the walk
MergeSet(h, bs, k) ==
    {bs[k]} \cup (IF PredFree(h, bs, k) THEN {bs[k - 1]} ELSE {})
            \cup (IF SuccFree(h, bs, k) THEN {bs[k + 1]} ELSE {})

\* where the block that free(bs[k]) leaves has to start
MergeStart(h, bs, k) == IF PredFree(h, bs, k) THEN bs[k - 1] ELSE bs[k]

\* the size the block that free(bs[k]) leaves has to have
MergeSize(h, bs, k) ==
    BlockSize(h, bs[k])
    + (IF PredFree(h, bs, k) THEN BlockSize(h, bs[k - 1]) ELSE 0)
    + (IF SuccFree(h, bs, k) THEN BlockSize(h, bs[k + 1]) ELSE 0)

\* the blocks listed in any bucket of h
Listed(h) == UNION {Range(bucket_blocks(h, i)) : i \in Buckets}

\* the step leaves, of the blocks bs, those of merged as one free block of the
\* given size at start, listed once and in the bucket of that size, the others
\* of merged unlisted, and the blocks not in merged as they were
MergedInto(bs, merged, start, size) ==
    /\ BlockSize(ImageNext, start) = size
    /\ GET_ALLOC(ImageNext, HDRP(start)) = 0
    /\ Range(heap_blocks(ImageNext)) = (Range(bs) \ merged) \cup {start}
    /\ \A i \in Buckets :
          Count(bucket_blocks(ImageNext, i), start) =
              IF i = get_segclass_ind(size) THEN 1 ELSE 0
    /\ (merged \ {start}) \cap Listed(ImageNext) = {}
    /\ \A b \in Range(bs) \ merged :
          /\ BlockSize(ImageNext, b) = BlockSize(Image, b)
          /\ GET_ALLOC(ImageNext, HDRP(b)) = GET_ALLOC(Image, HDRP(b))

\* what free of the k-th block of the walk bs has to do to the heap
FreeMergesAt(bs, k) ==
    MergedInto(bs, MergeSet(Image, bs, k), MergeStart(Image, bs, k), MergeSize(Image, bs, k))

\* what free(p) has to do to the heap
FreeMerges(p) == FreeMergesAt(heap_blocks(Image), IndexOf(heap_blocks(Image), p))

\* C16: free(p) on a live address p leaves one free block that covers p's old
\* block and those of its two address-order neighbours that were free: its size
\* is the sum of their sizes, it starts at the free predecessor if there was
\* one and at p otherwise, it is listed once, in the bucket of the merged size,
\* the absorbed blocks are listed nowhere, and every other block keeps its size
\* and alloc bit.
C16_FreeMergesFreeNeighbours ==
    [][(last'.op = "free" /\ last'.ptr # NULL) => FreeMerges(last'.ptr)]_vars

\* free has merged a block with the free block before it only: the merged
\* block ends where the freed block ended and a live block follows it
C16_Witness ==
    /\ phase = "ready"
    /\ last.op = "free" /\ last.ptr # NULL
    /\ \E b \in Range(FreeBlocks(Image)) :
          /\ b < last.ptr
          /\ BlockHi(Image, b) = BlockLo(last.ptr) + GET_SIZE(Image, HDRP(last.ptr))
          /\ NEXT_BLKP(Image, b) \in Live

-----------------------------------------------------------------------------
(* C17 *)

\* block bp, free in h, holds asize bytes and no free block of the heap h that
\* holds asize bytes is smaller
BestFit(h, bp, asize) ==
    /\ bp \in Range(FreeBlocks(h))
    /\ BlockSize(h, bp) >= asize
    /\ \A b \in Range(FreeBlocks(h)) :
          BlockSize(h, b) >= asize => BlockSize(h, bp) <= BlockSize(h, b)

\* C17: whenever malloc(n) is served from an existing free block, the block
\* find_fit chose, at which the returned block starts, has the least size among
\* all free blocks of the whole heap whose size is at least asize = align(n + 16).
C17_BestFitOverTheHeap ==
    [][(last'.op = "malloc" /\ last'.ret # NULL /\ last'.grew = 0) =>
          /\ find_fit(Image, align(Add(last'.n, DSIZE))) = last'.ret
          /\ BestFit(Image, last'.ret, align(Add(last'.n, DSIZE)))]_vars

\* malloc was served by a block that was not the head of its bucket: the block
\* before it in the list is larger and still free, and a third free block that
\* would have held the request was left alone as well
C17_Witness ==
    /\ phase = "ready"
    /\ last.op = "malloc" /\ last.ret # NULL /\ last.grew = 0
    /\ GET(Image, PREV_FREE_ADDR(last.ret)) \in Range(FreeBlocks(Image))
    /\ BlockSize(Image, GET(Image, PREV_FREE_ADDR(last.ret))) > BlockSize(Image, last.ret)
    /\ get_segclass_ind(BlockSize(Image, GET(Image, PREV_FREE_ADDR(last.ret))))
           = get_segclass_ind(BlockSize(Image, last.ret))
    /\ \E b \in Range(FreeBlocks(Image)) \ {GET(Image, PREV_FREE_ADDR(last.ret))} :
          BlockSize(Image, b) >= BlockSize(Image, last.ret)

-----------------------------------------------------------------------------
(* C18 *)

\* some free block of h holds asize bytes
FitExists(h, asize) == \E b \in Range(FreeBlocks(h)) : BlockSize(h, b) >= asize

\* C18: malloc(n), n > 0, asks the provider to grow the heap exactly when no
\* free block of the heap has a size of at least asize = align(n + 16); when
\* the provider grants the request the region grows by exactly asize bytes
\* (also when the last block is free), and when it refuses by none.
C18_GrowsIffNoFit ==
    [][(last'.op = "malloc" /\ last'.n > 0) =>
          /\ (last'.grew > 0 \/ last'.oom) <=> ~FitExists(Image, align(Add(last'.n, DSIZE)))
          /\ (last'.grew > 0 => last'.grew = align(Add(last'.n, DSIZE)))
          /\ (last'.oom => last'.grew = 0 /\ last'.ret = NULL)
          /\ last'.grew >= 0]_vars

\* malloc grew the heap by asize although the last block was free: the
\* returned block starts below the old break, and free blocks too small for
\* the request existed
C18_Witness ==
    /\ phase = "ready"
    /\ last.op = "malloc" /\ last.ret # NULL
    /\ last.grew = align(Add(last.n, DSIZE))
    /\ last.fb > 0
    /\ HDRP(last.ret) < mem_brk - last.grew - WSIZE
    /\ Live # {last.ret}

-----------------------------------------------------------------------------
(* C19 *)

\* the image and the free block malloc hands to place for a request of
\* adjusted size asize: find_fit's choice, or else the block extend_heap made
PlaceArgs(asize) ==
    IF find_fit(Image, asize) # NULL
    THEN [h |-> Image, ret |-> find_fit(Image, asize)]
    ELSE extend_heap(Image, asize)

\* the step has placed asize bytes in the free block B of size csize
Placed(B, asize, csize) ==
    /\ asize <= csize
    /\ last'.ret = B
    /\ GET_ALLOC(ImageNext, HDRP(B)) = 1
    /\ IF csize - asize >= 2 * DSIZE
       THEN /\ BlockSize(ImageNext, B) = asize
            /\ NEXT_BLKP(ImageNext, B) = B + asize
            /\ GET_ALLOC(ImageNext, HDRP(B + asize)) = 0
            /\ BlockSize(ImageNext, B + asize) = csize - asize
            /\ GET(ImageNext, FTRP(ImageNext, B + asize)) = GET(ImageNext, HDRP(B + asize))
            /\ Count(bucket_blocks(ImageNext, get_segclass_ind(csize - asize)), B + asize) = 1
       ELSE BlockSize(ImageNext, B) = csize
    /\ BlockSize(ImageNext, B) \in {asize, asize + ALIGNMENT}

\* the step has placed asize bytes in the block r.ret of the image r.h
PlacedIn(r, asize) == Placed(r.ret, asize, GET_SIZE(r.h, HDRP(r.ret)))

\* C19: when malloc commits a free block of size csize at B to a request of
\* adjusted size asize <= csize, the allocation starts at B; if csize - asize
\* >= 32 the allocated block has size asize and the other csize - asize bytes
\* are one free block right after it, listed in the bucket of its size;
\* otherwise the allocated block keeps all csize bytes.  So a returned block
\* has size asize or asize + 16.
C19_PlaceSplitsOrKeeps ==
    [][(last'.op = "malloc" /\ last'.ret # NULL) =>
          PlacedIn(PlaceArgs(align(Add(last'.n, DSIZE))), align(Add(last'.n, DSIZE)))]_vars

\* malloc has placed a request in a free block 16 bytes larger, between two
\* live blocks, and the block was not split
C19_Witness ==
    /\ phase = "ready"
    /\ last.op = "malloc" /\ last.ret # NULL /\ last.grew = 0
    /\ BlockSize(Image, last.ret) = align(Add(last.n, DSIZE)) + ALIGNMENT
    /\ NEXT_BLKP(Image, last.ret) \in Live
    /\ \E p \in Live : NEXT_BLKP(Image, p) = last.ret

-----------------------------------------------------------------------------
(* C20 *)

\* C20: after any sequence of malloc, free and realloc calls, also ones that
\* extended the heap or found the provider exhausted, once every returned
\* address has been freed the region between prologue and epilogue is a single
\* free block whose size is all the bytes obtained by extension, and exactly
\* one bucket is non-empty and holds exactly that block.
C20_AllFreedLeavesOneBlock ==
    (phase = "ready" /\ Live = {}) =>
        /\ heap_blocks(Image) = <<heap_listp>>
        /\ GET_ALLOC(Image, HDRP(heap_listp)) = 0
        /\ BlockSize(Image, heap_listp) = ExtensionBytes
        /\ \A i \in Buckets :
              bucket_blocks(Image, i) =
                  IF i = get_segclass_ind(ExtensionBytes) THEN <<heap_listp>> ELSE <<>>

\* the last live block has been freed, after a malloc that extended the heap;
\* it lay between two free blocks
C20_Witness ==
    /\ phase = "ready"
    /\ Live = {}
    /\ last.op = "free" /\ last.ptr > heap_listp
    /\ ExtensionBytes > align(CHUNKSIZE \div WSIZE)
    /\ BlockHi(Image, heap_listp) > BlockLo(last.ptr) + GET_SIZE(Image, HDRP(last.ptr))

-----------------------------------------------------------------------------
(* C21 *)

\* the number of bytes realloc(p, n) hands to memcpy: size_old is the size
\* field of p's header, read on line 415
Copied(p, n) == memcpy_len(n, GET_SIZE(Image, HDRP(p)))

\* C21: a successful realloc(p, n), p live and n > 0, copies exactly
\* min(n, old payload size) bytes, the old payload size being the old block's
\* size minus its 8-byte header; the bytes it reads all lie in p's payload
\* (none in the header of the block after p) and the bytes it writes all lie
\* in the payload of the new block.
C21_ReallocCopiesWithinPayload ==
    [][ReallocMoved =>
          /\ Copied(last'.ptr, last'.n) = Kept(last'.ptr, last'.n)
          /\ last'.ptr + Copied(last'.ptr, last'.n) <= BlockHi(Image, last'.ptr)
          /\ last'.ret + Copied(last'.ptr, last'.n) <= BlockHi(ImageNext, last'.ret)]_vars

====
